---- MODULE Spec2Model ----
(***************************************************************************)
(* The Channel router of cdipipe (Channel.cpp), its per-connection         *)
(* PayloadBuffer and the Connection base class, as a state machine.        *)
(*                                                                         *)
(* The specifications share the variables:                                 *)
(*   SpecConfig   the configuration API (add_input ... validate)           *)
(*   SpecBuffer   one PayloadBuffer driven by its public operations        *)
(*   Spec         the running router: executor tasks, transport            *)
(*                completions, the read loop and the write loops           *)
(*   SpecFanOut   the same router with one input and two outputs            *)
(*   SpecScenario the router fed a fixed number of payloads, no errors     *)
(*   SpecReopen   the router with connection_handler run in two steps      *)
(*   SpecLatch    get_connection_buffer called at every capacity and size  *)
(*   SpecThreads  get_connection_buffer and the buffer calls around it,    *)
(*                statement by statement, on two worker threads            *)
(***************************************************************************)
EXTENDS Integers, Sequences, FiniteSets, Bags, TLC

VARIABLES
    connections_,         \* Channel::connections_ (vector of connections, each with its fields)
    streams_,             \* Channel::streams_ (vector of streams, each with its counters)
    channel_map_,         \* Channel::channel_map_ (connection name <-> stream id)
    connection_buffers_,  \* Channel::connection_buffers_ (name -> (PayloadBuffer, overflow flag))
    active_,              \* Channel::active_ (the io_context::work sentinel is held)
    io_,                  \* Channel::io_: the handlers posted to the executor and not yet run
    io_stopped,           \* io_.stop() was called
    transport,            \* asynchronous operations handed to the connections, not yet completed
    shutdown_pc,          \* position of a running Channel::shutdown
    next_seq,             \* number of payloads the inputs have delivered so far
    faults,               \* number of transport errors so far
    delivered,            \* history: per stream, the payloads its input delivered without error
    handed,               \* history: per connection, the payloads handed to async_transmit
    receive_calls,        \* history: per connection, the number of async_receive calls
    last,                 \* history: the last call made or handler run, with its outcome
    offered,              \* history of SpecBuffer: the enqueue calls and what each returned
    pc,                   \* SpecThreads: position of each worker thread
    local,                \* SpecThreads: the locals of each worker thread
    episode_warnings      \* history: overflow warnings since the buffer was last at or below its low-water mark

vars == <<connections_, streams_, channel_map_, connection_buffers_, active_, io_,
          io_stopped, transport, shutdown_pc, next_seq, faults, delivered, handed,
          receive_calls, last, offered, pc, local, episode_warnings>>

(***************************************************************************)
(* Bounds of the model.                                                    *)
(***************************************************************************)
MaxConnections == 2   \* connections a configuration holds (SpecConfig)
MaxStreams == 1       \* streams a configuration holds (SpecConfig)
MaxMapped == 1        \* streams added to one connection by map_stream (SpecConfig)
MaxCapacity == 2      \* largest buffer capacity tried (SpecBuffer, SpecThreads)
MaxOffers == 4        \* enqueue calls in one run of SpecBuffer
MaxPayloads == 2      \* payloads the inputs deliver in one run (Spec, SpecThreads)
MaxFaults == 1        \* transport errors in one run (Spec)
RunCapacity == 1      \* buffer capacity of the configurations Spec runs
ScenarioCapacity == 4 \* buffer capacity of the ten-payload scenario (SpecScenario)
ScenarioPayloads == 10 \* payloads fed in the scenario (SpecScenario)
MaxLatchCapacity == 5 \* largest buffer capacity of SpecLatch

ConnectionNames == {"a", "b"}
StreamIds == {1, 2}
\* (type, mode) pairs the configuration calls are tried with
ConnectionKinds == {<<"Tcp", "Client">>, <<"Cdi", "Server">>}

NoPayload == [stream |-> 0, seq |-> 0]

Min(a, b) == IF a < b THEN a ELSE b

(***************************************************************************)
(* The state of a Channel as one record, so that the methods compose the   *)
(* way the calls in the code nest.                                         *)
(***************************************************************************)
State ==
    [connections |-> connections_, streams |-> streams_, channel_map |-> channel_map_,
     buffers |-> connection_buffers_, active |-> active_, io |-> io_,
     transport |-> transport, handed |-> handed, receive_calls |-> receive_calls]

Install(s) ==
    /\ connections_' = s.connections
    /\ streams_' = s.streams
    /\ channel_map_' = s.channel_map
    /\ connection_buffers_' = s.buffers
    /\ active_' = s.active
    /\ io_' = s.io
    /\ transport' = s.transport
    /\ handed' = s.handed
    /\ receive_calls' = s.receive_calls

EmptyChannel ==
    [connections |-> <<>>, streams |-> <<>>, channel_map |-> {},
     buffers |-> [n \in {} |-> 0], active |-> FALSE, io |-> EmptyBag,
     transport |-> EmptyBag, handed |-> <<>>, receive_calls |-> <<>>]

(***************************************************************************)
(* PayloadBuffer.  The class is declared in PayloadBuffer.h; its member    *)
(* functions are defined in PayloadBuffer.cpp and are modelled from the    *)
(* contract of the specification (section 4.1).                            *)
(***************************************************************************)
PayloadBuffer(buffer_capacity) ==
    [buffer |-> <<>>, capacity |-> buffer_capacity]

capacity(b) == b.capacity
size(b) == Len(b.buffer)
is_full(b) == size(b) = capacity(b)
is_empty(b) == size(b) = 0

enqueue_overwrite(b, item) ==
    IF is_full(b)
    THEN [b EXCEPT !.buffer = IF b.capacity = 0 THEN <<>> ELSE Append(Tail(@), item)]
    ELSE [b EXCEPT !.buffer = Append(@, item)]

\* the buffer after enqueue(item)
enqueue(b, item) ==
    IF is_full(b) THEN b ELSE [b EXCEPT !.buffer = Append(@, item)]

\* what enqueue(item) returns
enqueue_result(b) == ~is_full(b)

front(b) == Head(b.buffer)
pop_front(b) == [b EXCEPT !.buffer = Tail(@)]
clear(b) == [b EXCEPT !.buffer = <<>>]

(***************************************************************************)
(* Connection and Stream objects.                                          *)
(***************************************************************************)
\* Connection::Connection, through Connection::get_connection
get_connection(connection_type, name, connection_mode, connection_direction) ==
    [name |-> name, type |-> connection_type, mode |-> connection_mode,
     direction |-> connection_direction, status |-> "Closed", streams |-> <<>>]

\* the stream objects made by add_video_stream, add_audio_stream, add_ancillary_stream
make_stream(stream_identifier, payload_type) ==
    [id |-> stream_identifier, payload_type |-> payload_type,
     received |-> 0, transmitted |-> 0, errors |-> 0]

\* Connection::add_stream: the connections of s with stream id added to connection c
add_stream(s, c, stream_identifier) ==
    [s EXCEPT !.connections[c].streams = Append(@, stream_identifier)]

\* std::find_if over connections_ by name: the first match, 0 for end()
find_connection(s, connection_name) ==
    IF \E i \in DOMAIN s.connections : s.connections[i].name = connection_name
    THEN CHOOSE i \in DOMAIN s.connections :
            /\ s.connections[i].name = connection_name
            /\ \A j \in 1..(i - 1) : s.connections[j].name # connection_name
    ELSE 0

\* Channel::get_stream: the first stream with the id, 0 where the code throws
get_stream(s, stream_identifier) ==
    IF \E i \in DOMAIN s.streams : s.streams[i].id = stream_identifier
    THEN CHOOSE i \in DOMAIN s.streams :
            /\ s.streams[i].id = stream_identifier
            /\ \A j \in 1..(i - 1) : s.streams[j].id # stream_identifier
    ELSE 0

\* Channel::get_stream_connections: the connections the map gives for the stream,
\* each found by name, kept when of the direction asked for
get_stream_connections(s, stream_identifier, direction) ==
    {find_connection(s, e[1]) : e \in {m \in s.channel_map : m[2] = stream_identifier}}
        \cap {i \in DOMAIN s.connections :
                direction = "Both" \/ s.connections[i].direction = direction}

\* Channel::get_connection_streams: the stream ids the map gives for the connection name
get_connection_streams(s, connection_name) ==
    {e[2] : e \in {m \in s.channel_map : m[1] = connection_name}}

\* connection_buffers_.try_emplace(name, buffer_size, false)
try_emplace(buffers, name, buffer_size) ==
    IF name \in DOMAIN buffers
    THEN buffers
    ELSE (name :> [buf |-> PayloadBuffer(buffer_size), overflow |-> FALSE]) @@ buffers

(***************************************************************************)
(* The configuration API.                                                  *)
(***************************************************************************)
add_connection(s, connection_type, name, connection_mode, direction, buffer_size) ==
    [s EXCEPT !.buffers = try_emplace(@, name, buffer_size),
              !.connections = Append(@, get_connection(connection_type, name,
                                                       connection_mode, direction)),
              !.handed = Append(@, <<>>),
              !.receive_calls = Append(@, 0)]

add_input(s, connection_type, name, connection_mode, buffer_size) ==
    add_connection(s, connection_type, name, connection_mode, "In", buffer_size)

add_output(s, connection_type, name, connection_mode, buffer_size) ==
    add_connection(s, connection_type, name, connection_mode, "Out", buffer_size)

add_video_stream(s, stream_identifier) ==
    [s EXCEPT !.streams = Append(@, make_stream(stream_identifier, "Video"))]

add_audio_stream(s, stream_identifier) ==
    [s EXCEPT !.streams = Append(@, make_stream(stream_identifier, "Audio"))]

add_ancillary_stream(s, stream_identifier) ==
    [s EXCEPT !.streams = Append(@, make_stream(stream_identifier, "Ancillary"))]

\* bimap insert of the pair (connection_name, stream_identifier); the map's type
\* is declared in Channel.h
map_insert(channel_map, connection_name, stream_identifier) ==
    channel_map \cup {<<connection_name, stream_identifier>>}

map_stream_unchecked_stream(s, stream_identifier, connection_name) ==
    LET c == find_connection(s, connection_name) IN
    IF c = 0
    THEN [state |-> s, outcome |-> "InvalidConfiguration"]
    ELSE IF /\ s.connections[c].direction = "In"
            /\ get_stream_connections(s, stream_identifier, "In") # {}
    THEN [state |-> s, outcome |-> "InvalidConfiguration"]
    ELSE [state |-> [add_stream(s, c, stream_identifier) EXCEPT
                        !.channel_map = map_insert(@, connection_name, stream_identifier)],
          outcome |-> "ok"]

map_stream_unchecked_input(s, stream_identifier, connection_name) ==
    LET c == find_connection(s, connection_name) IN
    IF c = 0
    THEN [state |-> s, outcome |-> "InvalidConfiguration"]
    ELSE IF get_stream(s, stream_identifier) = 0
    THEN [state |-> s, outcome |-> "InvalidConfiguration"]
    ELSE [state |-> [add_stream(s, c, stream_identifier) EXCEPT
                        !.channel_map = map_insert(@, connection_name, stream_identifier)],
          outcome |-> "ok"]

\* Channel::map_stream: the state it leaves and whether it threw
map_stream(s, stream_identifier, connection_name) ==
    LET c == find_connection(s, connection_name) IN
    IF c = 0
    THEN [state |-> s, outcome |-> "InvalidConfiguration"]
    ELSE IF /\ s.connections[c].direction = "In"
            /\ get_stream_connections(s, stream_identifier, "In") # {}
    THEN [state |-> s, outcome |-> "InvalidConfiguration"]
    ELSE IF get_stream(s, stream_identifier) = 0
    THEN [state |-> s, outcome |-> "InvalidConfiguration"]
    ELSE [state |-> [add_stream(s, c, stream_identifier) EXCEPT
                        !.channel_map = map_insert(@, connection_name, stream_identifier)],
          outcome |-> "ok"]

validate_configuration_lenient(s) ==
    IF \A i \in DOMAIN s.connections :
            \E j \in DOMAIN s.connections : get_connection_streams(s, s.connections[j].name) # {}
    THEN "ok"
    ELSE "InvalidConfiguration"

\* Channel::validate_configuration: whether it returns or throws
validate_configuration(s) ==
    IF \A i \in DOMAIN s.connections :
            {m \in s.channel_map : m[1] = s.connections[i].name} # {}
    THEN "ok"
    ELSE "InvalidConfiguration"

(***************************************************************************)
(* SpecConfig: the configuration calls, in any order, on a new Channel.    *)
(***************************************************************************)
NoCall == [op |-> "none", name |-> "", id |-> 0, outcome |-> "", ec |-> FALSE]

InitHistory ==
    /\ io_stopped = FALSE
    /\ shutdown_pc = "idle"
    /\ next_seq = 0
    /\ faults = 0
    /\ delivered = [id \in StreamIds |-> <<>>]
    /\ last = NoCall
    /\ offered = [calls |-> <<>>, dequeued |-> FALSE]
    /\ pc = [t \in {} |-> ""]
    /\ local = [t \in {} |-> 0]
    /\ episode_warnings = 0

InitChannel(s) ==
    /\ connections_ = s.connections
    /\ streams_ = s.streams
    /\ channel_map_ = s.channel_map
    /\ connection_buffers_ = s.buffers
    /\ active_ = s.active
    /\ io_ = s.io
    /\ transport = s.transport
    /\ handed = s.handed
    /\ receive_calls = s.receive_calls

InitConfig == InitChannel(EmptyChannel) /\ InitHistory

ConfigFrame ==
    UNCHANGED <<io_stopped, shutdown_pc, next_seq, faults, delivered, offered, pc,
                local, episode_warnings>>

Called(op, name, id, outcome) ==
    last' = [op |-> op, name |-> name, id |-> id, outcome |-> outcome, ec |-> FALSE]

AddInput ==
    \E kind \in ConnectionKinds, name \in ConnectionNames :
        /\ Len(connections_) < MaxConnections
        /\ Install(add_input(State, kind[1], name, kind[2], MaxCapacity))
        /\ Called("add_input", name, 0, "ok")
        /\ ConfigFrame

AddOutput ==
    \E kind \in ConnectionKinds, name \in ConnectionNames :
        /\ Len(connections_) < MaxConnections
        /\ Install(add_output(State, kind[1], name, kind[2], MaxCapacity))
        /\ Called("add_output", name, 0, "ok")
        /\ ConfigFrame

AddVideoStream ==
    \E id \in StreamIds :
        /\ Len(streams_) < MaxStreams
        /\ Install(add_video_stream(State, id))
        /\ Called("add_video_stream", "", id, "ok")
        /\ ConfigFrame

AddAudioStream ==
    \E id \in StreamIds :
        /\ Len(streams_) < MaxStreams
        /\ Install(add_audio_stream(State, id))
        /\ Called("add_audio_stream", "", id, "ok")
        /\ ConfigFrame

AddAncillaryStream ==
    \E id \in StreamIds :
        /\ Len(streams_) < MaxStreams
        /\ Install(add_ancillary_stream(State, id))
        /\ Called("add_ancillary_stream", "", id, "ok")
        /\ ConfigFrame

MapStream ==
    \E id \in StreamIds, name \in ConnectionNames :
        LET r == map_stream(State, id, name) IN
        /\ IF find_connection(State, name) = 0
           THEN TRUE
           ELSE Len(connections_[find_connection(State, name)].streams) < MaxMapped
        /\ Install(r.state)
        /\ Called("map_stream", name, id, r.outcome)
        /\ ConfigFrame

ValidateConfiguration ==
    /\ Install(State)
    /\ Called("validate_configuration", "", 0, validate_configuration(State))
    /\ ConfigFrame

NextConfig ==
    \/ AddInput
    \/ AddOutput
    \/ AddVideoStream
    \/ AddAudioStream
    \/ AddAncillaryStream
    \/ MapStream
    \/ ValidateConfiguration

SpecConfig == InitConfig /\ [][NextConfig]_vars

(***************************************************************************)
(* Claims about the configuration API (SpecConfig).                        *)
(***************************************************************************)
\* the cases in which the claim says map_stream(id, name) must raise
MapStreamMustFail(s, id, name) ==
    \/ find_connection(s, name) = 0
    \/ get_stream(s, id) = 0
    \/ /\ find_connection(s, name) # 0
       /\ s.connections[find_connection(s, name)].direction = "In"
       /\ get_stream_connections(s, id, "In") # {}

\* C5: map_stream(id, name) raises InvalidConfiguration when the named connection
\* is an input and the stream is already mapped to an input, and when the name or
\* the id is unknown; a failing call adds no pair to the channel map and no stream
\* to any connection.
C5_MapStreamFailure ==
    [][(last'.op = "map_stream" /\ MapStreamMustFail(State, last'.id, last'.name))
          => /\ last'.outcome = "InvalidConfiguration"
             /\ channel_map_' = channel_map_
             /\ connections_' = connections_]_vars

\* a second input mapping of a mapped stream was tried and refused
C5_Witness ==
    /\ last.op = "map_stream"
    /\ last.outcome = "InvalidConfiguration"
    /\ find_connection(State, last.name) # 0
    /\ get_stream(State, last.id) # 0
    /\ connections_[find_connection(State, last.name)].direction = "In"
    /\ get_stream_connections(State, last.id, "In") # {}

InputsOf(id) == get_stream_connections(State, id, "In")

RegisteredIds == {streams_[i].id : i \in DOMAIN streams_}

\* C6 as stated: after a successful validate_configuration every registered stream
\* is mapped to exactly one input connection.
C6_ExactlyOneInput ==
    (last.op = "validate_configuration" /\ last.outcome = "ok")
        => \A id \in RegisteredIds : Cardinality(InputsOf(id)) = 1

\* C6 as amended: after any sequence of configuration calls every stream is mapped
\* to at most one input connection, and possibly to none, validate_configuration
\* having succeeded or not.
C6_AtMostOneInput ==
    \A id \in StreamIds : Cardinality(InputsOf(id)) <= 1

\* a stream has its input and some other input connection is registered too
C6_Witness ==
    \E id \in RegisteredIds :
        /\ Cardinality(InputsOf(id)) = 1
        /\ \E i \in DOMAIN connections_ :
              /\ connections_[i].direction = "In"
              /\ i \notin InputsOf(id)
              /\ find_connection(State, connections_[i].name) = i

\* C7: validate_configuration returns normally only if every registered connection
\* has a stream mapped to it and every mapped stream id is that of a registered
\* stream; it raises InvalidConfiguration if some connection has no mapped stream.
C7_ValidateConfiguration ==
    last.op = "validate_configuration"
        => /\ last.outcome = "ok"
                => /\ \A i \in DOMAIN connections_ :
                          get_connection_streams(State, connections_[i].name) # {}
                   /\ \A m \in channel_map_ : get_stream(State, m[2]) # 0
           /\ (\E i \in DOMAIN connections_ :
                  get_connection_streams(State, connections_[i].name) = {})
                => last.outcome = "InvalidConfiguration"

\* validate_configuration accepted a configuration of two connections
C7_Witness ==
    /\ last.op = "validate_configuration"
    /\ last.outcome = "ok"
    /\ Len(connections_) = 2
    /\ connections_[1].name # connections_[2].name

\* C8: no two registered streams share an id, no two registered connections share
\* a name, and a connection is registered if and only if a PayloadBuffer is
\* registered under its name.
C8_UniqueIdsAndNames ==
    /\ \A i, j \in DOMAIN streams_ : streams_[i].id = streams_[j].id => i = j
    /\ \A i, j \in DOMAIN connections_ :
          connections_[i].name = connections_[j].name => i = j
    /\ DOMAIN connection_buffers_ = {connections_[i].name : i \in DOMAIN connections_}

(***************************************************************************)
(* SpecBuffer: the PayloadBuffer of one output connection, driven through  *)
(* its public operations.                                                  *)
(***************************************************************************)
BufferName == "a"

TheBuffer == connection_buffers_[BufferName].buf

InitBuffer ==
    /\ \E buffer_size \in 0..MaxCapacity :
          InitChannel(add_output(EmptyChannel, "Tcp", BufferName, "Client", buffer_size))
    /\ InitHistory

BufferFrame ==
    UNCHANGED <<connections_, streams_, channel_map_, active_, io_, io_stopped,
                transport, shutdown_pc, faults, delivered, handed, receive_calls, pc, local,
                episode_warnings>>

BufferCalled(op) ==
    last' = [op |-> op, name |-> BufferName, id |-> 0, outcome |-> "", ec |-> FALSE]

BufferEnqueue ==
    LET item == [stream |-> 1, seq |-> next_seq + 1] IN
    /\ next_seq < MaxOffers
    /\ next_seq' = next_seq + 1
    /\ connection_buffers_' =
          [connection_buffers_ EXCEPT ![BufferName].buf = enqueue(@, item)]
    /\ offered' = [offered EXCEPT
          !.calls = Append(@, [item |-> item, returned |-> enqueue_result(TheBuffer)])]
    /\ BufferCalled("enqueue")
    /\ BufferFrame

BufferFront ==
    /\ ~is_empty(TheBuffer)
    /\ last' = [op |-> "front", name |-> BufferName, id |-> front(TheBuffer).seq,
                outcome |-> "", ec |-> FALSE]
    /\ UNCHANGED <<connection_buffers_, offered, next_seq>>
    /\ BufferFrame

BufferPopFront ==
    /\ ~is_empty(TheBuffer)
    /\ connection_buffers_' =
          [connection_buffers_ EXCEPT ![BufferName].buf = pop_front(@)]
    /\ offered' = [offered EXCEPT !.dequeued = TRUE]
    /\ BufferCalled("pop_front")
    /\ UNCHANGED next_seq
    /\ BufferFrame

BufferClear ==
    /\ connection_buffers_' =
          [connection_buffers_ EXCEPT ![BufferName].buf = clear(@)]
    /\ offered' = [offered EXCEPT !.dequeued = TRUE]
    /\ BufferCalled("clear")
    /\ UNCHANGED next_seq
    /\ BufferFrame

NextBuffer ==
    \/ BufferEnqueue
    \/ BufferFront
    \/ BufferPopFront
    \/ BufferClear

SpecBuffer == InitBuffer /\ [][NextBuffer]_vars

\* C3: enqueue appends at the tail and returns true when the buffer is not full,
\* and discards the payload and returns false when it is full: as long as nothing
\* was dequeued, the buffer holds the first C payloads offered, in the order
\* offered, every later one was refused, and the size never exceeds C.
C3_EnqueueDropsWhenFull ==
    LET C == capacity(TheBuffer)
        n == Len(offered.calls)
    IN  /\ size(TheBuffer) <= C
        /\ ~offered.dequeued
              => /\ TheBuffer.buffer = [i \in 1..Min(n, C) |-> offered.calls[i].item]
                 /\ \A i \in 1..n : offered.calls[i].returned = (i <= C)

\* C + 2 payloads were offered to a buffer of capacity C = MaxCapacity, none dequeued
C3_Witness ==
    /\ ~offered.dequeued
    /\ capacity(TheBuffer) = MaxCapacity
    /\ Len(offered.calls) = capacity(TheBuffer) + 2
    /\ size(TheBuffer) = capacity(TheBuffer)

(***************************************************************************)
(* The transport side of a connection.  TcpConnection and CdiConnection    *)
(* are not part of the router; what they do on an async_* call follows the *)
(* Connection contract of the specification (section 4.2).  An operation   *)
(* handed to a connection stays in `transport` until it completes.         *)
(***************************************************************************)
Op(kind, c, payload) == [kind |-> kind, conn |-> c, payload |-> payload]

Task(h, c, ec, payload) == [h |-> h, conn |-> c, ec |-> ec, payload |-> payload]

\* post(io_, handler): Connection::notify_* with deferred handlers, and the
\* repost of async_write
post(s, task) == [s EXCEPT !.io = @ (+) SetToBag({task})]

async_connect(s, c) ==
    [s EXCEPT !.connections[c].status = "Connecting",
              !.transport = @ (+) SetToBag({Op("connect", c, NoPayload)})]

async_accept(s, c) ==
    [s EXCEPT !.connections[c].status = "Connecting",
              !.transport = @ (+) SetToBag({Op("accept", c, NoPayload)})]

\* a Tcp connection reads one payload per call; a Cdi connection keeps the one
\* handler it was given and calls it for every payload
async_receive(s, c) ==
    IF s.connections[c].type = "Cdi" /\ BagIn(Op("receive", c, NoPayload), s.transport)
    THEN [s EXCEPT !.receive_calls[c] = @ + 1]
    ELSE [s EXCEPT !.transport = @ (+) SetToBag({Op("receive", c, NoPayload)}),
                   !.receive_calls[c] = @ + 1]

async_transmit(s, c, payload) ==
    [s EXCEPT !.transport = @ (+) SetToBag({Op("transmit", c, payload)}),
              !.handed[c] = Append(@, payload)]

\* Connection::disconnect
disconnect(s, c) == [s EXCEPT !.connections[c].status = "Closed"]

(***************************************************************************)
(* Stream counters.                                                        *)
(***************************************************************************)
received_payload(s, i) == [s EXCEPT !.streams[i].received = @ + 1]
transmitted_payload(s, i) == [s EXCEPT !.streams[i].transmitted = @ + 1]
payload_error(s, i) == [s EXCEPT !.streams[i].errors = @ + 1]

(***************************************************************************)
(* The router.                                                             *)
(***************************************************************************)
is_active(s) == s.active

low_water_mark_half(buffer_capacity) == buffer_capacity \div 2

\* static_cast<size_t>(buffer_capacity * 0.8)
low_water_mark(buffer_capacity) == (buffer_capacity * 4) \div 5

\* whether get_connection_buffer logs the overflow warning
overflow_warning(connection_state) ==
    is_full(connection_state.buf) /\ ~connection_state.overflow

\* Channel::get_connection_buffer: the state it leaves (the overflow flag of the
\* named buffer); the buffer it returns is s.buffers[connection_name].buf
get_connection_buffer(s, connection_name) ==
    LET connection_state == s.buffers[connection_name]
        buffer_size == size(connection_state.buf)
        latched == IF is_full(connection_state.buf) THEN TRUE ELSE connection_state.overflow
    IN  [s EXCEPT ![
            "buffers"][connection_name].overflow =
                IF latched
                THEN buffer_size > low_water_mark(capacity(connection_state.buf))
                ELSE latched]

RECURSIVE open_from_not_open(_, _)
open_from_not_open(s, i) ==
    IF i > Len(s.connections)
    THEN s
    ELSE open_from_not_open(IF s.connections[i].status # "Open"
                            THEN IF s.connections[i].mode = "Client"
                                 THEN async_connect(s, i)
                                 ELSE async_accept(s, i)
                            ELSE s,
                            i + 1)

RECURSIVE open_from(_, _)
open_from(s, i) ==
    IF i > Len(s.connections)
    THEN s
    ELSE open_from(IF s.connections[i].status = "Closed"
                   THEN IF s.connections[i].mode = "Client"
                        THEN async_connect(s, i)
                        ELSE async_accept(s, i)
                   ELSE s,
                   i + 1)

\* Channel::open_connections: the loop over connections_; the completion of each
\* connect or accept is connection_handler below
open_connections(s) == open_from(s, 1)

async_read_stop_on_error(s, c, ec) ==
    IF ~is_active(s)
    THEN s
    ELSE IF ec
    THEN IF s.connections[c].status # "Open" THEN open_connections(s) ELSE s
    ELSE async_receive(s, c)

\* Channel::async_read
async_read(s, c, ec) ==
    IF ~is_active(s)
    THEN s
    ELSE IF ec /\ s.connections[c].status # "Open"
    THEN open_connections(s)
    ELSE async_receive(s, c)

queue_payload_uncounted(s, output, stream, payload) ==
    IF s.connections[output].status # "Open"
    THEN open_connections(s)
    ELSE LET connection_name == s.connections[output].name
             s1 == get_connection_buffer(s, connection_name)
         IN  [s1 EXCEPT !.buffers[connection_name].buf = enqueue(@, payload)]

queue_payload_any_status(s, output, stream, payload) ==
    LET connection_name == s.connections[output].name
        s0 == IF s.connections[output].status # "Open" THEN open_connections(s) ELSE s
        s1 == get_connection_buffer(s0, connection_name)
        s2 == IF is_full(s1.buffers[connection_name].buf)
              THEN payload_error(s1, stream)
              ELSE s1
    IN  [s2 EXCEPT !.buffers[connection_name].buf = enqueue(@, payload)]

\* the body of the loop over the output connections in read_complete
queue_payload(s, output, stream, payload) ==
    IF s.connections[output].status # "Open"
    THEN open_connections(s)
    ELSE LET connection_name == s.connections[output].name
             s1 == get_connection_buffer(s, connection_name)
             s2 == IF is_full(s1.buffers[connection_name].buf)
                   THEN payload_error(s1, stream)
                   ELSE s1
         IN  [s2 EXCEPT !.buffers[connection_name].buf = enqueue(@, payload)]

RECURSIVE queue_payloads(_, _, _, _)
queue_payloads(s, outputs, stream, payload) ==
    IF outputs = {}
    THEN s
    ELSE LET output == CHOOSE o \in outputs : \A x \in outputs : o <= x
         IN  queue_payloads(queue_payload(s, output, stream, payload),
                            outputs \ {output}, stream, payload)

read_complete_rearm(s, c, ec, payload) ==
    LET stream == get_stream(s, payload.stream)
        s1 == received_payload(s, stream)
        s2 == IF ec THEN payload_error(s1, stream) ELSE s1
        s3 == IF ~ec
              THEN queue_payloads(s2, get_stream_connections(s2, payload.stream, "Out"),
                                  stream, payload)
              ELSE s2
    IN  async_read(s3, c, ec)

\* Channel::read_complete
read_complete(s, c, ec, payload) ==
    LET stream == get_stream(s, payload.stream)
        s1 == received_payload(s, stream)
        s2 == IF ec THEN payload_error(s1, stream) ELSE s1
        s3 == IF ~ec
              THEN queue_payloads(s2, get_stream_connections(s2, payload.stream, "Out"),
                                  stream, payload)
              ELSE s2
    IN  IF s.connections[c].type # "Cdi" THEN async_read(s3, c, ec) ELSE s3

\* Channel::async_write
async_write(s, c, ec) ==
    IF ~is_active(s)
    THEN s
    ELSE IF ec /\ s.connections[c].status # "Open"
    THEN open_connections(s)
    ELSE LET connection_name == s.connections[c].name
             s1 == get_connection_buffer(s, connection_name)
         IN  IF is_empty(s1.buffers[connection_name].buf)
             THEN post(s1, Task("async_write", c, ec, NoPayload))
             ELSE async_transmit(s1, c, front(s1.buffers[connection_name].buf))

\* Channel::write_complete; pop_front of an empty buffer is undefined, and
\* here leaves the buffer empty (WriteCompleteUndefined is the other outcome)
write_complete(s, c, stream_identifier, ec) ==
    LET stream == get_stream(s, stream_identifier)
        s1 == transmitted_payload(s, stream)
        s2 == IF ec THEN payload_error(s1, stream) ELSE s1
        connection_name == s.connections[c].name
        s3 == get_connection_buffer(s2, connection_name)
        s4 == [s3 EXCEPT !.buffers[connection_name].buf =
                            IF is_empty(@) THEN @ ELSE pop_front(@)]
    IN  async_write(s4, c, ec)

RECURSIVE clear_buffers(_, _)
clear_buffers(s, outputs) ==
    IF outputs = {}
    THEN s
    ELSE LET output == CHOOSE o \in outputs : \A x \in outputs : o <= x
             connection_name == s.connections[output].name
             s1 == get_connection_buffer(s, connection_name)
         IN  clear_buffers([s1 EXCEPT !.buffers[connection_name].buf = clear(@)],
                           outputs \ {output})

\* the outputs of every stream mapped to the connection
outputs_of_input(s, c) ==
    UNION {get_stream_connections(s, id, "Out") :
             id \in get_connection_streams(s, s.connections[c].name)}

invokes_handler_on_error(h, ec) == ec

\* whether a handler of the router invokes the caller's ChannelHandler: only the
\* connection_handler lambda does, when its completion carries an error
invokes_handler(h, ec) == h = "connection_handler" /\ ec

\* what a handler run is recorded to have done besides changing the state
Outcome(h, ec, otherwise) ==
    IF invokes_handler(h, ec) THEN "ChannelHandler" ELSE otherwise

\* the connection_handler lambda of Channel::open_connections; with an error it
\* calls the ChannelHandler and changes nothing
connection_handler(s, c, ec) ==
    IF ec
    THEN s
    ELSE IF is_active(s) /\ s.connections[c].direction = "In"
    THEN LET s1 == IF s.connections[c].type # "Cdi"
                   THEN async_read(s, c, FALSE)
                   ELSE async_receive(s, c)
         IN  clear_buffers(s1, outputs_of_input(s1, c))
    ELSE async_write(s, c, FALSE)

\* Channel::start up to the executor loop
start(s) == open_connections([s EXCEPT !.active = TRUE])

(***************************************************************************)
(* Spec: the running router.  The executor runs the posted handlers in any *)
(* order (start runs io_.run() on a pool of threads); each handler is one  *)
(* step.  The transport completes the operations it was handed, with or    *)
(* without an error; an error may leave the connection Open or not.        *)
(***************************************************************************)
\* one Tcp input and one Tcp output mapped to stream 1
ConfigurationTcp ==
    LET c1 == add_input(EmptyChannel, "Tcp", "in0", "Server", RunCapacity)
        c2 == add_output(c1, "Tcp", "out0", "Client", RunCapacity)
        c3 == add_video_stream(c2, 1)
        c4 == map_stream(c3, 1, "in0").state
    IN  map_stream(c4, 1, "out0").state

\* one Cdi input and one Tcp output mapped to stream 1
ConfigurationCdi ==
    LET c1 == add_input(EmptyChannel, "Cdi", "in0", "Client", RunCapacity)
        c2 == add_output(c1, "Tcp", "out0", "Server", RunCapacity)
        c3 == add_audio_stream(c2, 1)
        c4 == map_stream(c3, 1, "in0").state
    IN  map_stream(c4, 1, "out0").state

\* one Cdi input and two Tcp outputs mapped to stream 1
ConfigurationFanOut ==
    LET c1 == add_input(EmptyChannel, "Cdi", "in0", "Client", RunCapacity)
        c2 == add_output(c1, "Tcp", "out0", "Client", RunCapacity)
        c3 == add_output(c2, "Tcp", "out1", "Server", RunCapacity)
        c4 == add_ancillary_stream(c3, 1)
        c5 == map_stream(c4, 1, "in0").state
        c6 == map_stream(c5, 1, "out0").state
    IN  map_stream(c6, 1, "out1").state

\* one Tcp input and one Tcp output with room for MaxCapacity payloads
ConfigurationDeep ==
    LET c1 == add_input(EmptyChannel, "Tcp", "in0", "Client", MaxCapacity)
        c2 == add_output(c1, "Tcp", "out0", "Server", MaxCapacity)
        c3 == add_video_stream(c2, 1)
        c4 == map_stream(c3, 1, "in0").state
    IN  map_stream(c4, 1, "out0").state

Configurations == {ConfigurationTcp, ConfigurationCdi, ConfigurationDeep}

\* the state in which start is called: a configuration that validate_configuration
\* has accepted
InitRun(configurations) ==
    /\ \E s \in {c \in configurations : validate_configuration(c) = "ok"} : InitChannel(s)
    /\ io_stopped = FALSE
    /\ shutdown_pc = "idle"
    /\ next_seq = 0
    /\ faults = 0
    /\ delivered = [id \in StreamIds |-> <<>>]
    /\ last = [op |-> "validate_configuration", name |-> "", id |-> 0,
               outcome |-> "ok", ec |-> FALSE]
    /\ offered = [calls |-> <<>>, dequeued |-> FALSE]
    /\ pc = [t \in {} |-> ""]
    /\ local = [t \in {} |-> 0]
    /\ episode_warnings = 0

Init == InitRun(Configurations)

InitFanOut == InitRun({ConfigurationFanOut})

RunFrame == UNCHANGED <<offered, pc, local, episode_warnings>>

Ran(op, c, id, ec, outcome) ==
    last' = [op |-> op, name |-> connections_[c].name, id |-> id,
             outcome |-> outcome, ec |-> ec]

\* the process runs and its executor has not been stopped
Running == ~io_stopped /\ shutdown_pc # "aborted"

Completed(op) == [State EXCEPT !.transport = @ (-) SetToBag({op})]

Start ==
    /\ last.op \in {"validate_configuration", "shutdown"}
    /\ shutdown_pc = "idle"
    /\ ~active_
    /\ Install(start(State))
    /\ last' = [op |-> "start", name |-> "", id |-> 0, outcome |-> "", ec |-> FALSE]
    /\ UNCHANGED <<io_stopped, shutdown_pc, next_seq, faults, delivered>>
    /\ RunFrame

\* a connect or an accept completes: the connection is Open
ConnectSucceeds ==
    \E op \in BagToSet(transport) :
        /\ Running
        /\ op.kind \in {"connect", "accept"}
        /\ connections_[op.conn].status = "Connecting"
        /\ Install(post([Completed(op) EXCEPT !.connections[op.conn].status = "Open"],
                        Task("connection_handler", op.conn, FALSE, NoPayload)))
        /\ Ran(op.kind, op.conn, 0, FALSE, "completed")
        /\ UNCHANGED <<io_stopped, shutdown_pc, next_seq, faults, delivered>>
        /\ RunFrame

\* a connect or an accept fails, or was cut short by disconnect
ConnectFails ==
    \E op \in BagToSet(transport), status \in {"Closed", "Faulted"} :
        /\ Running
        /\ op.kind \in {"connect", "accept"}
        /\ IF connections_[op.conn].status = "Connecting"
           THEN /\ faults < MaxFaults
                /\ faults' = faults + 1
                /\ Install(post([Completed(op) EXCEPT !.connections[op.conn].status = status],
                                Task("connection_handler", op.conn, TRUE, NoPayload)))
           ELSE /\ status = "Closed"
                /\ UNCHANGED faults
                /\ Install(post(Completed(op),
                                Task("connection_handler", op.conn, TRUE, NoPayload)))
        /\ Ran(op.kind, op.conn, 0, TRUE, "completed")
        /\ UNCHANGED <<io_stopped, shutdown_pc, next_seq, delivered>>
        /\ RunFrame

\* the operation of a Cdi input stays armed after a payload
AfterReceive(op) ==
    IF connections_[op.conn].type = "Cdi" THEN State ELSE Completed(op)

\* an input delivers the next payload of one of its streams, `limit` at most
Delivers(op, id, limit) ==
    LET payload == [stream |-> id, seq |-> next_seq + 1] IN
    /\ Running
    /\ op.kind = "receive"
    /\ connections_[op.conn].status = "Open"
    /\ next_seq < limit
    /\ next_seq' = next_seq + 1
    /\ delivered' = [delivered EXCEPT ![id] = Append(@, payload)]
    /\ Install(post(AfterReceive(op), Task("read_complete", op.conn, FALSE, payload)))
    /\ Ran("receive", op.conn, id, FALSE, "completed")
    /\ UNCHANGED <<io_stopped, shutdown_pc, faults>>
    /\ RunFrame

ReceiveSucceeds ==
    \E op \in BagToSet(transport) :
      \E id \in get_connection_streams(State, connections_[op.conn].name) :
        Delivers(op, id, MaxPayloads)

\* a receive fails; the error names a stream of the connection
ReceiveFails ==
    \E op \in BagToSet(transport), status \in {"Open", "Closed", "Faulted"} :
      \E id \in get_connection_streams(State, connections_[op.conn].name) :
        LET payload == [stream |-> id, seq |-> 0] IN
        /\ Running
        /\ op.kind = "receive"
        /\ IF connections_[op.conn].status = "Open"
           THEN /\ faults < MaxFaults
                /\ faults' = faults + 1
                /\ Install(post([AfterReceive(op) EXCEPT !.connections[op.conn].status = status],
                                Task("read_complete", op.conn, TRUE, payload)))
           ELSE /\ status = "Closed"
                /\ connections_[op.conn].type # "Cdi"
                /\ UNCHANGED faults
                /\ Install(post(Completed(op), Task("read_complete", op.conn, TRUE, payload)))
        /\ Ran("receive", op.conn, id, TRUE, "completed")
        /\ UNCHANGED <<io_stopped, shutdown_pc, next_seq, delivered>>
        /\ RunFrame

TransmitSucceeds ==
    \E op \in BagToSet(transport) :
        /\ Running
        /\ op.kind = "transmit"
        /\ connections_[op.conn].status = "Open"
        /\ Install(post(Completed(op), Task("write_complete", op.conn, FALSE, op.payload)))
        /\ Ran("transmit", op.conn, op.payload.stream, FALSE, "completed")
        /\ UNCHANGED <<io_stopped, shutdown_pc, next_seq, faults, delivered>>
        /\ RunFrame

TransmitFails ==
    \E op \in BagToSet(transport), status \in {"Open", "Closed", "Faulted"} :
        /\ Running
        /\ op.kind = "transmit"
        /\ IF connections_[op.conn].status = "Open"
           THEN /\ faults < MaxFaults
                /\ faults' = faults + 1
                /\ Install(post([Completed(op) EXCEPT !.connections[op.conn].status = status],
                                Task("write_complete", op.conn, TRUE, op.payload)))
           ELSE /\ status = "Closed"
                /\ UNCHANGED faults
                /\ Install(post(Completed(op), Task("write_complete", op.conn, TRUE, op.payload)))
        /\ Ran("transmit", op.conn, op.payload.stream, TRUE, "completed")
        /\ UNCHANGED <<io_stopped, shutdown_pc, next_seq, delivered>>
        /\ RunFrame

Taken(task) == [State EXCEPT !.io = @ (-) SetToBag({task})]

HandlerFrame ==
    /\ UNCHANGED <<io_stopped, shutdown_pc, next_seq, faults, delivered>>
    /\ RunFrame

RunConnectionHandler ==
    \E task \in BagToSet(io_) :
        /\ Running
        /\ task.h = "connection_handler"
        /\ Install(connection_handler(Taken(task), task.conn, task.ec))
        /\ Ran("connection_handler", task.conn, 0, task.ec, Outcome(task.h, task.ec, ""))
        /\ HandlerFrame

RunReadComplete ==
    \E task \in BagToSet(io_) :
        /\ Running
        /\ task.h = "read_complete"
        /\ Install(read_complete(Taken(task), task.conn, task.ec, task.payload))
        /\ Ran("read_complete", task.conn, task.payload.stream, task.ec,
               Outcome(task.h, task.ec, ""))
        /\ HandlerFrame

RunAsyncWrite ==
    \E task \in BagToSet(io_) :
        /\ Running
        /\ task.h = "async_write"
        /\ Install(async_write(Taken(task), task.conn, task.ec))
        /\ Ran("async_write", task.conn, 0, task.ec, Outcome(task.h, task.ec, ""))
        /\ HandlerFrame

RunWriteComplete ==
    \E task \in BagToSet(io_) :
        /\ Running
        /\ task.h = "write_complete"
        /\ Install(write_complete(Taken(task), task.conn, task.payload.stream, task.ec))
        /\ Ran("write_complete", task.conn, task.payload.stream, task.ec,
               Outcome(task.h, task.ec,
                       IF is_empty(connection_buffers_[connections_[task.conn].name].buf)
                       THEN "pop_front on empty" ELSE ""))
        /\ HandlerFrame

\* write_complete calls pop_front on an empty buffer and the process dies of it
WriteCompleteUndefined ==
    \E task \in BagToSet(io_) :
        /\ Running
        /\ task.h = "write_complete"
        /\ is_empty(connection_buffers_[connections_[task.conn].name].buf)
        /\ Install(Taken(task))
        /\ shutdown_pc' = "aborted"
        /\ Ran("write_complete", task.conn, task.payload.stream, task.ec, "aborted")
        /\ UNCHANGED <<io_stopped, next_seq, faults, delivered>>
        /\ RunFrame

shutdown_reset_unguarded(s, at) ==
    [state |-> [s EXCEPT !.active = FALSE], pc |-> "reset"]

\* Channel::shutdown up to active_.reset(): the call returns at once when the
\* sentinel is absent (its position stays `at`), else it drops the sentinel
shutdown_reset(s, at) ==
    IF ~s.active
    THEN [state |-> s, pc |-> at]
    ELSE [state |-> [s EXCEPT !.active = FALSE], pc |-> "reset"]

\* Channel::shutdown, statement by statement: a call is made, before start, while
\* the channel runs or after an earlier call has returned
ShutdownReset ==
    LET entered == shutdown_reset(State, shutdown_pc) IN
    /\ shutdown_pc \in {"idle", "done"}
    /\ Install(entered.state)
    /\ shutdown_pc' = entered.pc
    /\ last' = [op |-> "shutdown", name |-> "", id |-> 0,
                outcome |-> IF entered.pc = "reset" THEN "reset" ELSE "absent",
                ec |-> FALSE]
    /\ UNCHANGED <<io_stopped, next_seq, faults, delivered>>
    /\ RunFrame

RECURSIVE disconnect_from(_, _)
disconnect_from(s, i) ==
    IF i > Len(s.connections) THEN s ELSE disconnect_from(disconnect(s, i), i + 1)

\* the loop that disconnects every connection
ShutdownDisconnect ==
    /\ Running
    /\ shutdown_pc = "reset"
    /\ Install(disconnect_from(State, 1))
    /\ shutdown_pc' = "disconnected"
    /\ last' = [op |-> "shutdown", name |-> "", id |-> 0, outcome |-> "disconnected",
                ec |-> FALSE]
    /\ UNCHANGED <<io_stopped, next_seq, faults, delivered>>
    /\ RunFrame

\* io_.stop()
ShutdownStop ==
    /\ Running
    /\ shutdown_pc = "disconnected"
    /\ io_stopped' = TRUE
    /\ shutdown_pc' = "done"
    /\ last' = [op |-> "shutdown", name |-> "", id |-> 0, outcome |-> "stopped", ec |-> FALSE]
    /\ UNCHANGED <<connections_, streams_, channel_map_, connection_buffers_, active_,
                   io_, transport, handed, receive_calls, next_seq, faults, delivered>>
    /\ RunFrame

Next ==
    \/ Start
    \/ ConnectSucceeds
    \/ ConnectFails
    \/ ReceiveSucceeds
    \/ ReceiveFails
    \/ TransmitSucceeds
    \/ TransmitFails
    \/ RunConnectionHandler
    \/ RunReadComplete
    \/ RunAsyncWrite
    \/ RunWriteComplete
    \/ WriteCompleteUndefined
    \/ ShutdownReset
    \/ ShutdownDisconnect
    \/ ShutdownStop

Spec == Init /\ [][Next]_vars

\* the same router with one input fanned out to two outputs
SpecFanOut == InitFanOut /\ [][Next]_vars

(***************************************************************************)
(* SpecScenario: one Tcp input and one Tcp output of capacity              *)
(* ScenarioCapacity on one stream, ScenarioPayloads payloads fed, no       *)
(* transport error and no shutdown (both connections stay Open).           *)
(***************************************************************************)
ConfigurationScenario ==
    LET c1 == add_input(EmptyChannel, "Tcp", "in0", "Server", ScenarioCapacity)
        c2 == add_output(c1, "Tcp", "out0", "Client", ScenarioCapacity)
        c3 == add_video_stream(c2, 1)
        c4 == map_stream(c3, 1, "in0").state
    IN  map_stream(c4, 1, "out0").state

InitScenario == InitRun({ConfigurationScenario})

\* the payloads are fed while both connections are Open
ScenarioReceive ==
    \E op \in BagToSet(transport) :
      \E id \in get_connection_streams(State, connections_[op.conn].name) :
        /\ \A c \in DOMAIN connections_ : connections_[c].status = "Open"
        /\ Delivers(op, id, ScenarioPayloads)

NextScenario ==
    \/ Start
    \/ ConnectSucceeds
    \/ ScenarioReceive
    \/ TransmitSucceeds
    \/ RunConnectionHandler
    \/ RunReadComplete
    \/ RunAsyncWrite
    \/ RunWriteComplete

SpecScenario == InitScenario /\ [][NextScenario]_vars

(***************************************************************************)
(* SpecReopen: the running router of Spec, with the connection_handler of  *)
(* an input run in two steps on its worker thread: first it arms the       *)
(* receive (lines 63-70), later it clears the output buffers (lines        *)
(* 73-78).  The other handlers run on the other threads of the pool in     *)
(* between.  local.armed_at is the number of payloads delivered when the   *)
(* receive was armed.                                                      *)
(***************************************************************************)
Worker == "connection_handler"

InitReopen ==
    /\ \E s \in {c \in Configurations : validate_configuration(c) = "ok"} : InitChannel(s)
    /\ io_stopped = FALSE
    /\ shutdown_pc = "idle"
    /\ next_seq = 0
    /\ faults = 0
    /\ delivered = [id \in StreamIds |-> <<>>]
    /\ last = [op |-> "validate_configuration", name |-> "", id |-> 0,
               outcome |-> "ok", ec |-> FALSE]
    /\ offered = [calls |-> <<>>, dequeued |-> FALSE]
    /\ pc = [t \in {Worker} |-> "idle"]
    /\ local = [t \in {Worker} |-> [conn |-> 0, armed_at |-> 0]]
    /\ episode_warnings = 0

\* the first half of connection_handler for an input: the receive is armed
connection_handler_arm(s, c) ==
    IF s.connections[c].type # "Cdi" THEN async_read(s, c, FALSE) ELSE async_receive(s, c)

\* whether connection_handler takes the branch of lines 62-79
opens_input(s, c, ec) == ~ec /\ is_active(s) /\ s.connections[c].direction = "In"

\* connection_handler starts on the worker: for an opened input it arms the
\* receive and goes on to the clear; otherwise it is the handler of Spec
ConnectionHandlerArm ==
    \E task \in BagToSet(io_) :
        /\ Running
        /\ pc[Worker] = "idle"
        /\ task.h = "connection_handler"
        /\ IF opens_input(State, task.conn, task.ec)
           THEN /\ Install(connection_handler_arm(Taken(task), task.conn))
                /\ pc' = [pc EXCEPT ![Worker] = "clear"]
                /\ local' = [local EXCEPT ![Worker] = [conn |-> task.conn,
                                                       armed_at |-> next_seq]]
           ELSE /\ Install(connection_handler(Taken(task), task.conn, task.ec))
                /\ UNCHANGED <<pc, local>>
        /\ Ran("connection_handler", task.conn, 0, task.ec, Outcome(task.h, task.ec, ""))
        /\ UNCHANGED <<io_stopped, shutdown_pc, next_seq, faults, delivered, offered,
                       episode_warnings>>

\* the second half: the buffer of every output of the input's streams is cleared
ConnectionHandlerClear ==
    /\ Running
    /\ pc[Worker] = "clear"
    /\ Install(clear_buffers(State, outputs_of_input(State, local[Worker].conn)))
    /\ pc' = [pc EXCEPT ![Worker] = "idle"]
    /\ Ran("clear", local[Worker].conn, 0, FALSE, "")
    /\ UNCHANGED <<io_stopped, shutdown_pc, next_seq, faults, delivered, offered, local,
                   episode_warnings>>

NextReopen ==
    \/ Start
    \/ ConnectSucceeds
    \/ ConnectFails
    \/ ReceiveSucceeds
    \/ ReceiveFails
    \/ TransmitSucceeds
    \/ TransmitFails
    \/ ConnectionHandlerArm
    \/ ConnectionHandlerClear
    \/ RunReadComplete
    \/ RunAsyncWrite
    \/ RunWriteComplete
    \/ WriteCompleteUndefined
    \/ ShutdownReset
    \/ ShutdownDisconnect
    \/ ShutdownStop

SpecReopen == InitReopen /\ [][NextReopen]_vars

(***************************************************************************)
(* Claims about the running router (Spec, SpecFanOut).                     *)
(***************************************************************************)
Outputs == {c \in DOMAIN connections_ : connections_[c].direction = "Out"}
Inputs == {c \in DOMAIN connections_ : connections_[c].direction = "In"}

\* C1: on every output connection the payloads handed to async_transmit are an
\* in-order subsequence of the payloads the input delivered for their stream: each
\* was delivered, none is handed over twice, none out of arrival order.
C1_TransmitSubsequence ==
    \A c \in Outputs :
        /\ \A i \in DOMAIN handed[c] :
              \E k \in DOMAIN delivered[handed[c][i].stream] :
                  delivered[handed[c][i].stream][k] = handed[c][i]
        /\ \A i, j \in DOMAIN handed[c] : i < j => handed[c][i].seq < handed[c][j].seq

\* how many entries of a bag satisfy a test
Copies(bag, Test(_)) ==
    LET matching == {x \in BagToSet(bag) : Test(x)}
    IN  IF matching = {} THEN 0 ELSE BagCardinality([x \in matching |-> bag[x]])

\* the receives outstanding on a connection, and the tasks of its read loop or its
\* write loop that are outstanding: the operation in the transport, or the posted
\* handler that will issue the next one
OutstandingReceives(c) ==
    Copies(transport, LAMBDA op : op.kind = "receive" /\ op.conn = c)

\* (the handler a Cdi connection holds is replaced, not doubled, when its open
\* completes again)
OutstandingReadLoops(c) ==
    IF connections_[c].type = "Cdi" /\ OutstandingReceives(c) > 0
    THEN OutstandingReceives(c)
    ELSE OutstandingReceives(c)
         + Copies(io_, LAMBDA task :
                     /\ task.conn = c
                     /\ \/ task.h = "connection_handler" /\ ~task.ec
                        \/ task.h = "read_complete" /\ connections_[c].type # "Cdi")

OutstandingWriteLoops(c) ==
    Copies(transport, LAMBDA op : op.kind = "transmit" /\ op.conn = c)
    + Copies(io_, LAMBDA task :
                /\ task.conn = c
                /\ \/ task.h = "connection_handler" /\ ~task.ec
                   \/ task.h \in {"write_complete", "async_write"})

\* C2: while the channel is active every open input connection has exactly one
\* outstanding receive and every open output connection exactly one outstanding
\* transmit-or-poll task; a reconnect never starts a second loop for a connection
\* whose earlier loop is still outstanding.  (A completion handler that is posted
\* and will issue the next operation counts as that loop being outstanding.)
C2_OneLoopPerConnection ==
    (active_ /\ shutdown_pc = "idle")
        => /\ \A c \in Inputs :
                connections_[c].status = "Open" => OutstandingReadLoops(c) = 1
           /\ \A c \in Outputs :
                connections_[c].status = "Open" => OutstandingWriteLoops(c) = 1

\* C9: in every reachable state the received counter of a stream is greater than
\* or equal to its transmitted counter, for any number of output connections
\* mapped to the stream.
C9_ReceivedAtLeastTransmitted ==
    \A i \in DOMAIN streams_ : streams_[i].received >= streams_[i].transmitted

\* the second clause of C9: the two counters are equal only when no error was
\* counted for the stream
C9_EqualOnlyWithoutErrors ==
    \A i \in DOMAIN streams_ :
        (streams_[i].received = streams_[i].transmitted /\ streams_[i].received > 0)
            => streams_[i].errors = 0

\* the connection the last handler ran for
LastConnection == find_connection(State, last'.name)

\* arming a Cdi input: the handler of its completed open calls async_receive once
CdiArmedOnOpen ==
    (/\ last'.op = "connection_handler"
     /\ ~last'.ec
     /\ active_
     /\ connections_[LastConnection].direction = "In"
     /\ connections_[LastConnection].type = "Cdi")
        => receive_calls'[LastConnection] = receive_calls[LastConnection] + 1

\* read_complete never calls async_receive on a Cdi input
CdiNotRearmed ==
    (last'.op = "read_complete" /\ connections_[LastConnection].type = "Cdi")
        => receive_calls' = receive_calls

\* C10 as stated: a Cdi input gets its one async_receive when its open completes
\* and none from read_complete; an input of another type gets one more
\* async_receive after every read completion while the channel is active.
C10_ReceiveRearmedAlways ==
    [][/\ CdiArmedOnOpen
       /\ CdiNotRearmed
       /\ (/\ last'.op = "read_complete"
           /\ connections_[LastConnection].type # "Cdi"
           /\ active_)
             => receive_calls'[LastConnection] = receive_calls[LastConnection] + 1]_vars

\* C10 as amended: as stated, except that after a read completion that carries an
\* error while the connection's status is not Open the router calls
\* open_connections and no async_receive.
C10_ReceiveRearmed ==
    [][/\ CdiArmedOnOpen
       /\ CdiNotRearmed
       /\ (/\ last'.op = "read_complete"
           /\ connections_[LastConnection].type # "Cdi")
             => receive_calls'[LastConnection] =
                   IF active_ /\ ~(last'.ec /\ connections_[LastConnection].status # "Open")
                   THEN receive_calls[LastConnection] + 1
                   ELSE receive_calls[LastConnection]]_vars

\* a Cdi input has delivered MaxPayloads payloads, the last one just handled, and
\* async_receive was called on it once
C10_Witness ==
    /\ last.op = "read_complete"
    /\ ~last.ec
    /\ connections_[find_connection(State, last.name)].type = "Cdi"
    /\ next_seq = MaxPayloads
    /\ streams_[1].received = MaxPayloads
    /\ receive_calls[find_connection(State, last.name)] = 1

\* everything but the record of the last call
ChannelAndHistory ==
    <<connections_, streams_, channel_map_, connection_buffers_, active_, io_,
      io_stopped, transport, shutdown_pc, next_seq, faults, delivered, handed,
      receive_calls, offered, pc, local, episode_warnings>>

\* C11: shutdown is idempotent.  A call made while the sentinel is held drops it,
\* then calls disconnect on every connection (each is Closed when the loop ends),
\* then stops the executor; a call made when the sentinel is absent (before start,
\* or after an earlier call) changes no state and disconnects nothing.
C11_ShutdownIdempotent ==
    [][/\ (last'.op = "shutdown" /\ shutdown_pc \in {"idle", "done"})
            => IF active_
               THEN ~active_' /\ shutdown_pc' = "reset"
               ELSE last'.outcome = "absent" /\ UNCHANGED ChannelAndHistory
       /\ (shutdown_pc = "reset" /\ shutdown_pc' = "disconnected")
            => /\ last'.outcome = "disconnected"
               /\ \A c \in DOMAIN connections_ : connections_'[c].status = "Closed"
       /\ (shutdown_pc = "disconnected" /\ shutdown_pc' = "done") => io_stopped']_vars

\* a second call of shutdown has returned after the first one stopped the executor
C11_Witness ==
    /\ last.op = "shutdown"
    /\ last.outcome = "absent"
    /\ shutdown_pc = "done"
    /\ io_stopped
    /\ ~active_

\* the operation that opens a connection, and the one that does not
Dial(c) ==
    Op(IF connections_[c].mode = "Client" THEN "connect" ELSE "accept", c, NoPayload)

NoDial(c) ==
    Op(IF connections_[c].mode = "Client" THEN "accept" ELSE "connect", c, NoPayload)

\* C12: from any state the router reaches, open_connections hands a connect (mode
\* Client) or an accept (mode Server) to exactly the connections whose status is
\* Closed and leaves every other connection and every other operation as they
\* were; with every connection Open it changes nothing at all.
C12_OpenConnections ==
    LET after == open_connections(State) IN
    /\ \A c \in DOMAIN connections_ :
          /\ CopiesIn(NoDial(c), after.transport) = CopiesIn(NoDial(c), transport)
          /\ IF connections_[c].status = "Closed"
             THEN CopiesIn(Dial(c), after.transport) = CopiesIn(Dial(c), transport) + 1
             ELSE /\ CopiesIn(Dial(c), after.transport) = CopiesIn(Dial(c), transport)
                  /\ after.connections[c] = connections_[c]
    /\ \A op \in BagToSet(after.transport) \cup BagToSet(transport) :
          op.kind \notin {"connect", "accept"}
              => CopiesIn(op, after.transport) = CopiesIn(op, transport)
    /\ [after EXCEPT !.connections = connections_, !.transport = transport] = State
    /\ (\A c \in DOMAIN connections_ : connections_[c].status = "Open") => after = State

\* read_complete has called open_connections for an output that a failed transmit
\* left Closed: the output is being opened again, the input, Open, is left alone
C12_Witness ==
    /\ last.op = "read_complete"
    /\ ~last.ec
    /\ faults > 0
    /\ \E c \in Outputs :
          /\ connections_[c].status = "Connecting"
          /\ CopiesIn(Dial(c), transport) = 1
    /\ \A c \in Inputs :
          /\ connections_[c].status = "Open"
          /\ CopiesIn(Dial(c), transport) = 0

\* C13: the caller's ChannelHandler is invoked exactly by the handler of a connect
\* or accept completion that carries an error (every such completion posts that
\* handler); the handlers that see a receive error, a transmit error, a dropped
\* payload or a full buffer never invoke it.
C13_ChannelHandler ==
    /\ (last.outcome = "ChannelHandler") <=> (last.op = "connection_handler" /\ last.ec)
    /\ (last.op \in {"connect", "accept"} /\ last.ec)
          => BagIn(Task("connection_handler", find_connection(State, last.name), TRUE,
                        NoPayload), io_)

\* the handler of a failed connect or accept has invoked the ChannelHandler, in a
\* run where an error was counted for the stream before
C13_Witness ==
    /\ last.op = "connection_handler"
    /\ last.ec
    /\ last.outcome = "ChannelHandler"
    /\ streams_[1].errors > 0

\* the payloads in the buffer of a connection
Queued(c) == connection_buffers_[connections_[c].name].buf.buffer

\* C14: when read_complete handles a payload received without error, each output
\* mapped to the payload's stream gets the payload at the tail of its buffer if
\* and only if that output is Open and its own buffer is not full, whatever the
\* other outputs are; an output that is not Open is skipped and open_connections
\* runs (every Closed connection is being opened afterwards).
C14_OutputsIndependent ==
    [][(last'.op = "read_complete" /\ ~last'.ec)
         => \E payload \in {p \in UNION {{t.payload : t \in BagToSet(io_)}} :
                                p.stream = last'.id} :
              /\ \A c \in get_stream_connections(State, last'.id, "Out") :
                    /\ Queued(c)' =
                          IF connections_[c].status = "Open"
                             /\ Len(Queued(c)) < connection_buffers_[connections_[c].name].buf.capacity
                          THEN Append(Queued(c), payload)
                          ELSE Queued(c)
                    /\ connections_[c].status # "Open"
                          => \A d \in DOMAIN connections_ :
                                connections_[d].status = "Closed"
                                    => connections_'[d].status = "Connecting"
              /\ BagIn(Task("read_complete", LastConnection, FALSE, payload), io_)]_vars

\* of two outputs of one stream, the first kept its payload and dropped the next
\* one, the second took the next one
C14_Witness ==
    /\ last.op = "read_complete"
    /\ ~last.ec
    /\ Cardinality(Outputs) = 2
    /\ \E c, d \in Outputs :
          /\ connections_[c].status = "Open"
          /\ connections_[d].status = "Open"
          /\ Queued(c) = <<[stream |-> 1, seq |-> 1]>>
          /\ Queued(d) = <<[stream |-> 1, seq |-> 2]>>
    /\ streams_[1].errors = 1

\* every payload of the scenario was fed and nothing is left to do for it
ScenarioDone ==
    /\ next_seq = ScenarioPayloads
    /\ \A task \in BagToSet(io_) : task.h = "async_write"
    /\ \A op \in BagToSet(transport) : op.kind = "receive"
    /\ \A c \in Outputs : Queued(c) = <<>>

C17_NeverEmptyAtPopFront ==
    last.op = "write_complete" => last.outcome \notin {"pop_front on empty", "aborted"}

\* the handler just run saw an error completion of a receive or a transmit
ErrorCompletion ==
    /\ last'.op \in {"read_complete", "write_complete"}
    /\ last'.outcome # "aborted"
    /\ last'.ec
    /\ active_

\* C18: while the channel is active, when a receive or a transmit completes with
\* an error on a connection that is not Open (Closed, Connecting or Faulted), the
\* router has the connection opened again (it is Connecting, its connect or accept
\* under way, when the handler returns); and when a connection's open completes,
\* its read loop or write loop runs again.
C18_ReopenAfterError ==
    [][/\ (ErrorCompletion /\ connections_[LastConnection].status # "Open")
            => /\ connections_'[LastConnection].status = "Connecting"
               /\ CopiesIn(Dial(LastConnection), transport') >= 1
       /\ (last'.op = "connection_handler" /\ ~last'.ec /\ active_)
            => IF connections_[LastConnection].direction = "In"
               THEN Copies(transport', LAMBDA op :
                              op.kind = "receive" /\ op.conn = LastConnection) >= 1
               ELSE Copies(transport', LAMBDA op :
                              op.kind = "transmit" /\ op.conn = LastConnection)
                    + Copies(io_', LAMBDA task :
                                task.h = "async_write" /\ task.conn = LastConnection) >= 1]_vars

\* C19: while the channel is active, an error completion of a receive or a
\* transmit on a connection that is still Open does not stop the connection's
\* loop: read_complete issues the next async_receive (a Cdi input, which has no
\* read loop in the router, keeps the handler it was armed with), and
\* write_complete goes on to transmit the next queued payload or, the buffer
\* empty, reposts async_write.
C19_LoopContinues ==
    [][(ErrorCompletion /\ connections_[LastConnection].status = "Open")
         => IF last'.op = "read_complete"
            THEN /\ Copies(transport', LAMBDA op :
                              op.kind = "receive" /\ op.conn = LastConnection) >= 1
                 /\ connections_[LastConnection].type # "Cdi"
                       => receive_calls'[LastConnection] = receive_calls[LastConnection] + 1
            ELSE IF Len(Queued(LastConnection)) > 1
            THEN /\ BagIn(Op("transmit", LastConnection, Queued(LastConnection)[2]),
                          transport')
                 /\ Len(handed'[LastConnection]) = Len(handed[LastConnection]) + 1
            ELSE /\ BagIn(Task("async_write", LastConnection, TRUE, NoPayload), io_')
                 /\ handed' = handed]_vars

\* the transmit of the first of two queued payloads failed on an output that
\* stayed Open, and write_complete has handed the second one to async_transmit
C19_Witness ==
    /\ last.op = "write_complete"
    /\ last.ec
    /\ active_
    /\ \E c \in Outputs :
          /\ connections_[c].name = last.name
          /\ connections_[c].status = "Open"
          /\ handed[c] = <<[stream |-> 1, seq |-> 1], [stream |-> 1, seq |-> 2]>>
          /\ BagIn(Op("transmit", c, [stream |-> 1, seq |-> 2]), transport)
          /\ streams_[1].errors = 1

\* the step ran one of the router's callbacks
CallbackRan ==
    /\ last'.op \in {"connection_handler", "read_complete", "async_write", "write_complete"}
    /\ last'.outcome # "aborted"
    /\ <<io_, transport, last>>' # <<io_, transport, last>>

\* C21: once the active sentinel has been dropped, a callback of the router that
\* runs afterwards hands no new connect, accept, receive or transmit to a
\* connection and posts no async_write task.
C21_NothingInitiatedWhenInactive ==
    [][(~active_ /\ CallbackRan)
         => /\ \A op \in BagToSet(transport') :
                  CopiesIn(op, transport') <= CopiesIn(op, transport)
            /\ \A task \in BagToSet(io_') :
                  task.h = "async_write" => CopiesIn(task, io_') <= CopiesIn(task, io_)
            /\ receive_calls' = receive_calls
            /\ handed' = handed]_vars

\* C22: when the open of an input completes while the channel is active, its
\* connection_handler leaves the buffer of every output of the input's streams
\* empty, and every payload the clear discards was queued before the open
\* completed (none was delivered after the handler armed the receive).
C22_ClearDiscardsStale ==
    [][(pc[Worker] = "clear" /\ pc'[Worker] = "idle")
         => \A c \in outputs_of_input(State, local[Worker].conn) :
               /\ Queued(c)' = <<>>
               /\ \A i \in DOMAIN Queued(c) : Queued(c)[i].seq <= local[Worker].armed_at]_vars

\* C23: the payload write_complete removes with pop_front was handed to
\* async_transmit on that connection before: write_complete never removes
\* from an output buffer a payload that no transmit was started for.
C23_PopsOnlyHanded ==
    [][\A task \in BagToSet(io_) :
          (/\ task.h = "write_complete"
           /\ last'.op = "write_complete"
           /\ CopiesIn(task, io_') < CopiesIn(task, io_)
           /\ Queued(task.conn) # <<>>
           /\ Queued(task.conn)' = Tail(Queued(task.conn)))
          => \E i \in DOMAIN handed[task.conn] :
                handed[task.conn][i] = Head(Queued(task.conn))]_vars

(***************************************************************************)
(* SpecLatch: get_connection_buffer called on one buffer, of every         *)
(* capacity up to MaxLatchCapacity, as payloads are enqueued and popped.   *)
(***************************************************************************)
LatchName == "out0"

LatchState == connection_buffers_[LatchName]

InitLatch ==
    /\ \E buffer_size \in 0..MaxLatchCapacity :
          InitChannel(add_output(EmptyChannel, "Tcp", LatchName, "Client", buffer_size))
    /\ InitHistory

LatchFrame ==
    UNCHANGED <<connections_, streams_, channel_map_, active_, io_, io_stopped,
                transport, shutdown_pc, next_seq, faults, delivered, handed,
                receive_calls, offered, pc, local, episode_warnings>>

LatchCalled(op, outcome) ==
    last' = [op |-> op, name |-> LatchName, id |-> size(LatchState.buf),
             outcome |-> outcome, ec |-> FALSE]

LatchEnqueue ==
    /\ ~is_full(LatchState.buf)
    /\ connection_buffers_' =
          [connection_buffers_ EXCEPT ![LatchName].buf =
              enqueue(@, [stream |-> 1, seq |-> size(@) + 1])]
    /\ LatchCalled("enqueue", "")
    /\ LatchFrame

LatchPopFront ==
    /\ ~is_empty(LatchState.buf)
    /\ connection_buffers_' = [connection_buffers_ EXCEPT ![LatchName].buf = pop_front(@)]
    /\ LatchCalled("pop_front", "")
    /\ LatchFrame

\* a call of get_connection_buffer; recorded with the size it saw and with what it
\* did to a latch it found set
LatchGetConnectionBuffer ==
    LET after == get_connection_buffer(State, LatchName).buffers IN
    /\ connection_buffers_' = after
    /\ LatchCalled("get_connection_buffer",
                   IF ~LatchState.overflow THEN "unset"
                   ELSE IF after[LatchName].overflow THEN "kept" ELSE "cleared")
    /\ LatchFrame

NextLatch ==
    \/ LatchEnqueue
    \/ LatchPopFront
    \/ LatchGetConnectionBuffer

SpecLatch == InitLatch /\ [][NextLatch]_vars

\* C20 as stated: for every capacity C and size n, get_connection_buffer clears a
\* set overflow latch only when n is strictly below 80% of C and keeps it set
\* while n is at or above 80% of C.
C20_ClearedBelowMark ==
    (last.op = "get_connection_buffer" /\ last.outcome \in {"kept", "cleared"})
        => (last.outcome = "kept" <=> 5 * last.id >= 4 * capacity(LatchState.buf))

\* C20 as amended: get_connection_buffer clears a set overflow latch exactly when
\* n is at or below 80% of C and keeps it set while n is strictly above 80% of C.
C20_ClearedAtMark ==
    (last.op = "get_connection_buffer" /\ last.outcome \in {"kept", "cleared"})
        => (last.outcome = "kept" <=> 5 * last.id > 4 * capacity(LatchState.buf))

\* a buffer of capacity 5 holding 4 payloads: the latch was set and
\* get_connection_buffer has cleared it
C20_Witness ==
    /\ last.op = "get_connection_buffer"
    /\ last.outcome = "cleared"
    /\ capacity(LatchState.buf) = 5
    /\ last.id = 4
    /\ size(LatchState.buf) = 4
    /\ ~LatchState.overflow

(***************************************************************************)
(* SpecThreads: the statements of read_complete, async_write and           *)
(* write_complete that touch one output buffer, and get_connection_buffer  *)
(* statement by statement, on two threads of the pool: "read" runs the     *)
(* read path for each payload of the input, "write" runs the write loop of *)
(* the output.  Every PayloadBuffer call is one step (it holds the         *)
(* buffer's mutex); the overflow flag is read and written without a lock.  *)
(***************************************************************************)
Threads == {"read", "write"}

ThreadsOutput == "out0"

\* a channel that was started, with both connections of ConfigurationTcp open;
\* the output's buffer has the given capacity
OpenChannel(buffer_size) ==
    LET c1 == add_input(EmptyChannel, "Tcp", "in0", "Server", buffer_size)
        c2 == add_output(c1, "Tcp", ThreadsOutput, "Client", buffer_size)
        c3 == add_video_stream(c2, 1)
        c4 == map_stream(c3, 1, "in0").state
        c5 == map_stream(c4, 1, ThreadsOutput).state
    IN  [c5 EXCEPT !.active = TRUE,
                   !.connections[1].status = "Open",
                   !.connections[2].status = "Open"]

InitThreads ==
    /\ \E buffer_size \in 1..MaxCapacity : InitChannel(OpenChannel(buffer_size))
    /\ io_stopped = FALSE
    /\ shutdown_pc = "idle"
    /\ next_seq = 0
    /\ faults = 0
    /\ delivered = [id \in StreamIds |-> <<>>]
    /\ last = [op |-> "start", name |-> "", id |-> 0, outcome |-> "", ec |-> FALSE]
    /\ offered = [calls |-> <<>>, dequeued |-> FALSE]
    /\ pc = [t \in Threads |-> IF t = "read" THEN "idle" ELSE "async_write"]
    /\ local = [t \in Threads |-> [buffer_size |-> 0, return |-> "", payload |-> NoPayload,
                                    discarded |-> 0]]
    /\ episode_warnings = 0

ThreadsFrame ==
    UNCHANGED <<connections_, channel_map_, active_, io_, io_stopped, transport,
                shutdown_pc, faults, offered, receive_calls, last>>

ThreadsState == connection_buffers_[ThreadsOutput]

Goto(t, label) == pc' = [pc EXCEPT ![t] = label]

\* the call get_connection_buffer(connection_name), returning to `label`
CallGetConnectionBuffer(t, label) ==
    /\ pc' = [pc EXCEPT ![t] = "buffer.size"]
    /\ local' = [local EXCEPT ![t].return = label]

\* read_complete up to its call of get_connection_buffer (lines 131-147)
ReadCompleteEnter ==
    LET payload == [stream |-> 1, seq |-> next_seq + 1] IN
    /\ pc["read"] = "idle"
    /\ next_seq < MaxPayloads
    /\ next_seq' = next_seq + 1
    /\ delivered' = [delivered EXCEPT ![1] = Append(@, payload)]
    /\ streams_' = received_payload(State, get_stream(State, 1)).streams
    /\ pc' = [pc EXCEPT !["read"] = "buffer.size"]
    /\ local' = [local EXCEPT !["read"].return = "is_full", !["read"].payload = payload]
    /\ UNCHANGED <<connection_buffers_, handed, episode_warnings>>
    /\ ThreadsFrame

\* size_t buffer_size = buffer.size()  (line 249)
GetBufferSize(t) ==
    /\ pc[t] = "buffer.size"
    /\ local' = [local EXCEPT ![t].buffer_size = size(ThreadsState.buf)]
    /\ Goto(t, "buffer.is_full")
    /\ UNCHANGED <<connection_buffers_, streams_, handed, next_seq, delivered,
                   episode_warnings>>
    /\ ThreadsFrame

\* if (buffer.is_full()) { if (!connection_state.second)  (lines 250-251)
TestOverflow(t) ==
    /\ pc[t] = "buffer.is_full"
    /\ Goto(t, IF overflow_warning(ThreadsState) THEN "warn"
               ELSE "connection_state.second")
    /\ UNCHANGED <<connection_buffers_, streams_, handed, next_seq, delivered, local,
                   episode_warnings>>
    /\ ThreadsFrame

\* LOG_WARNING ...; connection_state.second = true  (lines 252-255)
WarnOverflow(t) ==
    /\ pc[t] = "warn"
    /\ episode_warnings' = episode_warnings + 1
    /\ connection_buffers_' = [connection_buffers_ EXCEPT ![ThreadsOutput].overflow = TRUE]
    /\ Goto(t, "connection_state.second")
    /\ UNCHANGED <<streams_, handed, next_seq, delivered, local>>
    /\ ThreadsFrame

\* if (connection_state.second)  (line 259)
TestLatch(t) ==
    /\ pc[t] = "connection_state.second"
    /\ Goto(t, IF ThreadsState.overflow THEN "low_water_mark" ELSE local[t].return)
    /\ UNCHANGED <<connection_buffers_, streams_, handed, next_seq, delivered, local,
                   episode_warnings>>
    /\ ThreadsFrame

\* connection_state.second = buffer_size > low_water_mark  (lines 260-262)
SetLatch(t) ==
    /\ pc[t] = "low_water_mark"
    /\ connection_buffers_' =
          [connection_buffers_ EXCEPT ![ThreadsOutput].overflow =
              local[t].buffer_size > low_water_mark(capacity(ThreadsState.buf))]
    /\ Goto(t, local[t].return)
    /\ UNCHANGED <<streams_, handed, next_seq, delivered, local, episode_warnings>>
    /\ ThreadsFrame

\* if (connection_buffer.is_full()) stream->payload_error()  (lines 148-150)
ReadCompleteIsFull ==
    /\ pc["read"] = "is_full"
    /\ streams_' = IF is_full(ThreadsState.buf)
                   THEN payload_error(State, get_stream(State, 1)).streams
                   ELSE streams_
    /\ Goto("read", "enqueue")
    /\ UNCHANGED <<connection_buffers_, handed, next_seq, delivered, local,
                   episode_warnings>>
    /\ ThreadsFrame

\* connection_buffer.enqueue(payload)  (line 152); the buffer becoming full
\* starts an overflow episode; local.discarded counts the payloads enqueue refused
ReadCompleteEnqueue ==
    LET after == enqueue(ThreadsState.buf, local["read"].payload) IN
    /\ pc["read"] = "enqueue"
    /\ connection_buffers_' = [connection_buffers_ EXCEPT ![ThreadsOutput].buf = after]
    /\ episode_warnings' =
          IF is_full(after) /\ ~is_full(ThreadsState.buf) THEN 0 ELSE episode_warnings
    /\ local' = [local EXCEPT !["read"].discarded =
                                 IF enqueue_result(ThreadsState.buf) THEN @ ELSE @ + 1]
    /\ Goto("read", "idle")
    /\ UNCHANGED <<streams_, handed, next_seq, delivered>>
    /\ ThreadsFrame

\* async_write up to its call of get_connection_buffer (lines 174-186)
AsyncWriteEnter ==
    /\ pc["write"] = "async_write"
    /\ is_active(State)
    /\ CallGetConnectionBuffer("write", "is_empty")
    /\ UNCHANGED <<connection_buffers_, streams_, handed, next_seq, delivered,
                   episode_warnings>>
    /\ ThreadsFrame

\* if (connection_buffer.is_empty()) { yield; post(async_write); return; }
AsyncWriteIsEmpty ==
    /\ pc["write"] = "is_empty"
    /\ Goto("write", IF is_empty(ThreadsState.buf) THEN "async_write" ELSE "front")
    /\ UNCHANGED <<connection_buffers_, streams_, handed, next_seq, delivered, local,
                   episode_warnings>>
    /\ ThreadsFrame

\* auto payload = connection_buffer.front(); ... connection->async_transmit(payload, ...)
AsyncWriteTransmit ==
    /\ pc["write"] = "front"
    /\ ~is_empty(ThreadsState.buf)
    /\ local' = [local EXCEPT !["write"].payload = front(ThreadsState.buf)]
    /\ handed' = [handed EXCEPT ![2] = Append(@, front(ThreadsState.buf))]
    /\ Goto("write", "async_transmit")
    /\ UNCHANGED <<connection_buffers_, streams_, next_seq, delivered, episode_warnings>>
    /\ ThreadsFrame

\* the transmit completes; write_complete up to get_connection_buffer (lines 215-220)
WriteCompleteEnter ==
    /\ pc["write"] = "async_transmit"
    /\ streams_' = transmitted_payload(State, get_stream(State, 1)).streams
    /\ CallGetConnectionBuffer("write", "pop_front")
    /\ UNCHANGED <<connection_buffers_, handed, next_seq, delivered, episode_warnings>>
    /\ ThreadsFrame

\* connection_buffer.pop_front(); async_write(...)  (lines 221-239); the size
\* falling to the low-water mark ends an overflow episode
WriteCompletePopFront ==
    LET after == pop_front(ThreadsState.buf) IN
    /\ pc["write"] = "pop_front"
    /\ ~is_empty(ThreadsState.buf)
    /\ connection_buffers_' = [connection_buffers_ EXCEPT ![ThreadsOutput].buf = after]
    /\ episode_warnings' =
          IF size(after) <= low_water_mark(capacity(after)) THEN 0 ELSE episode_warnings
    /\ Goto("write", "async_write")
    /\ UNCHANGED <<streams_, handed, next_seq, delivered, local>>
    /\ ThreadsFrame

NextThreads ==
    \/ ReadCompleteEnter
    \/ ReadCompleteIsFull
    \/ ReadCompleteEnqueue
    \/ AsyncWriteEnter
    \/ AsyncWriteIsEmpty
    \/ AsyncWriteTransmit
    \/ WriteCompleteEnter
    \/ WriteCompletePopFront
    \/ \E t \in Threads :
          \/ GetBufferSize(t)
          \/ TestOverflow(t)
          \/ WarnOverflow(t)
          \/ TestLatch(t)
          \/ SetLatch(t)

SpecThreads == InitThreads /\ [][NextThreads]_vars

\* C4: once a buffer has become full, get_connection_buffer emits exactly one
\* overflow warning until the buffer's size has dropped to at most 0.8 times its
\* capacity, whatever the capacity and however the calls of the read path and the
\* write path interleave: no second warning within one overflow episode.
C4_OneWarningPerEpisode == episode_warnings <= 1

\* C16: in read_complete the stream's error counter goes up by one for each payload
\* that enqueue discards and stays for each payload that enqueue accepts, however
\* the is_full test and the enqueue interleave with the buffer calls of another
\* thread: whenever the read path is between payloads, the errors counted equal
\* the payloads discarded.
C16_OneErrorPerDrop ==
    pc["read"] = "idle" => streams_[1].errors = local["read"].discarded

====
